---- MODULE Spec2Model ----
(***************************************************************************)
(* A model of reindeer's Buck rule model and BUCK file emitter             *)
(* (src/src/buck.rs, src/src/config.rs).                                   *)
(*                                                                         *)
(* Text is modelled as TLA+ strings, one character per byte, so the bytes  *)
(* that reach the sink are the bytes of the model.  Strings are ordered as *)
(* Rust orders them: lexicographically by byte value.                      *)
(***************************************************************************)
EXTENDS Naturals, Integers, Sequences, FiniteSets, TLC

VARIABLES
    config,     \* the BuckConfig handed to write_buckfile / Rule::render
    rules,      \* the rule sequence the caller's iterator yields
    pc,         \* position inside the operation being executed
    idx,        \* enumerate() index of the rule being emitted
    out,        \* the sink: [buf, cap, partial]
    result,     \* the operation's return value ("none" until it returns)
    fail,       \* where and why the current call failed (ghost of the Err path)
    run,        \* 1 for the first call of write_buckfile, 2 for the second
    first,      \* what the first call left behind: [buf, result]
    emitted,    \* the rules whose rendering reached the sink, in order (ghost)
    ref,        \* a RuleRef under construction
    platcfg,    \* the PlatformConfig a RuleRef is filtered against
    platformMap, \* Config.platform: platform name -> PlatformConfig
    path        \* a BuckPath to serialize

vars == <<config, rules, pc, idx, out, result, fail, run, first, emitted,
          ref, platcfg, platformMap, path>>

(***************************************************************************)
(* Bounds of the model.                                                    *)
(***************************************************************************)
MaxRules == 3       \* longest rule sequence handed to write_buckfile
MaxCap == 3         \* largest capacity of a bounded sink, in units of CapStride
CapStride == 50     \* bytes per unit of sink capacity
MaxPathLen == 3     \* longest path, in units, given to BuckPath::serialize
MaxFields == 2      \* most fields of a rendered rule set away from their defaults

(***************************************************************************)
(* Strings.                                                                *)
(***************************************************************************)
None == [some |-> FALSE]
Some(v) == [some |-> TRUE, val |-> v]

Ok(v) == [ok |-> TRUE, val |-> v]
Err(e) == [ok |-> FALSE, err |-> e]

Min(S) == CHOOSE x \in S : \A y \in S : x <= y

\* The printable ASCII characters in byte order, from 32 (space) to 126 (~).
\* Byte 96 (the grave accent) cannot be written in a TLA+ string; a tab, which
\* no text of the model holds, keeps its place.
Ascii == " !\"#$%&'()*+,-./0123456789:;<=>?@ABCDEFGHIJKLMNOPQRSTUVWXYZ[\\]^_\tabcdefghijklmnopqrstuvwxyz{|}~"

CharAt(s, k) == SubSeq(s, k, k)

\* The byte value of a one-character string.
Code(c) == 31 + (CHOOSE k \in 1..Len(Ascii) : CharAt(Ascii, k) = c)

\* str::cmp: lexicographic by byte, a proper prefix first.
StrLess(a, b) ==
    LET n == IF Len(a) < Len(b) THEN Len(a) ELSE Len(b)
        d == {k \in 1..n : CharAt(a, k) # CharAt(b, k)}
    IN  IF d = {} THEN Len(a) < Len(b)
        ELSE Code(CharAt(a, Min(d))) < Code(CharAt(b, Min(d)))

\* The strings of a sequence joined end to end.
RECURSIVE Concat(_)
Concat(ss) == IF ss = <<>> THEN "" ELSE Head(ss) \o Concat(Tail(ss))

\* Iteration order of a BTreeSet / BTreeMap: ascending by the element order.
\* The element at position k is the one with k-1 elements below it.
SortedSeq(S, Less(_, _)) ==
    [k \in 1..Cardinality(S) |->
        CHOOSE x \in S : Cardinality({y \in S : Less(y, x)}) = k - 1]

\* All sequences over S of length at most n.
SeqsUpTo(S, n) == UNION {[1..k -> S] : k \in 0..n}

(***************************************************************************)
(* BuckPath (buck.rs:88-101).  A path is a sequence of units: a unit is a  *)
(* one-character string, or Invalid, a byte that is no UTF-8 text (0xFF).  *)
(***************************************************************************)
Invalid == "<ff>"

UnitCode(u) == IF u = Invalid THEN 255 ELSE Code(u)

\* Path::to_str: the text of the path, None when it is not valid Unicode.
ToStr(p) ==
    IF \E k \in 1..Len(p) : p[k] = Invalid THEN None ELSE Some(Concat(p))

\* str::replace('\\', "/"): every backslash becomes a forward slash.
RECURSIVE ReplaceBackslash(_)
ReplaceBackslash(s) ==
    IF s = "" THEN ""
    ELSE (IF CharAt(s, 1) = "\\" THEN "/" ELSE CharAt(s, 1))
          \o ReplaceBackslash(SubSeq(s, 2, Len(s)))

\* A bug the normalisation could have: only the first backslash is replaced.
RECURSIVE ReplaceFirstBackslash(_)
ReplaceFirstBackslash(s) ==
    IF s = "" THEN ""
    ELSE IF CharAt(s, 1) = "\\" THEN "/" \o SubSeq(s, 2, Len(s))
    ELSE CharAt(s, 1) \o ReplaceFirstBackslash(SubSeq(s, 2, Len(s)))

Normalize(s) == ReplaceBackslash(s)

\* impl Serialize for BuckPath: the normalised text, or a serializer error.
SerializeBuckPath(p) ==
    IF ToStr(p).some THEN Ok(Normalize(ToStr(p).val))
    ELSE Err("path contains invalid UTF-8 characters")

\* Path::components on a relative path: the units between separators.
RECURSIVE Components(_)
Components(p) ==
    IF p = <<>> THEN <<>>
    ELSE LET seps == {k \in 1..Len(p) : p[k] = "/"}
             cut == IF seps = {} THEN Len(p) + 1 ELSE Min(seps)
             rest == Components(SubSeq(p, cut + 1, Len(p)))
         IN  IF cut = 1 THEN rest ELSE <<SubSeq(p, 1, cut - 1)>> \o rest

\* OsStr::cmp on one component: byte by byte, a proper prefix first.
UnitsLess(p, q) ==
    LET n == IF Len(p) < Len(q) THEN Len(p) ELSE Len(q)
        d == {k \in 1..n : p[k] # q[k]}
    IN  IF d = {} THEN Len(p) < Len(q)
        ELSE UnitCode(p[Min(d)]) < UnitCode(q[Min(d)])

\* derive(Ord) on BuckPath(PathBuf): component by component.
PathLess(p, q) ==
    LET a == Components(p)
        b == Components(q)
        n == IF Len(a) < Len(b) THEN Len(a) ELSE Len(b)
        d == {k \in 1..n : a[k] # b[k]}
    IN  IF d = {} THEN Len(a) < Len(b)
        ELSE UnitsLess(a[Min(d)], b[Min(d)])

(***************************************************************************)
(* The platform predicate language (crate::platform, outside src/).        *)
(* A PlatformExpr is text such as cfg(any(unix, windows)); a               *)
(* PlatformConfig is modelled as the set of atoms that hold on it.         *)
(***************************************************************************)
Letters == {CharAt("abcdefghijklmnopqrstuvwxyz_", k) : k \in 1..27}

IsLetter(c) == c \in Letters

\* The length of the run of letters that starts the string.
RECURSIVE LetterRun(_)
LetterRun(s) ==
    IF s = "" \/ ~IsLetter(CharAt(s, 1)) THEN 0
    ELSE 1 + LetterRun(SubSeq(s, 2, Len(s)))

RECURSIVE Lex(_)
Lex(s) ==
    IF s = "" THEN <<>>
    ELSE LET c == CharAt(s, 1)
             n == LetterRun(s)
         IN  IF c = " " THEN Lex(SubSeq(s, 2, Len(s)))
             ELSE IF n > 0 THEN <<SubSeq(s, 1, n)>> \o Lex(SubSeq(s, n + 1, Len(s)))
             ELSE <<c>> \o Lex(SubSeq(s, 2, Len(s)))

Keywords == {"cfg", "not", "any", "all"}
Reject == [ok |-> FALSE]

RECURSIVE ParsePred(_)
RECURSIVE ParseList(_)
\* A predicate at the head of the tokens: [ok, node, rest].
ParsePred(ts) ==
    IF ts = <<>> THEN Reject
    ELSE IF Head(ts) = "not" THEN
        IF Len(ts) >= 2 /\ ts[2] = "(" THEN
            LET r == ParsePred(SubSeq(ts, 3, Len(ts)))
            IN  IF r.ok /\ r.rest # <<>> /\ Head(r.rest) = ")"
                THEN [ok |-> TRUE, node |-> [op |-> "not", args |-> <<r.node>>],
                      rest |-> Tail(r.rest)]
                ELSE Reject
        ELSE Reject
    ELSE IF Head(ts) \in {"any", "all"} THEN
        IF Len(ts) >= 2 /\ ts[2] = "(" THEN
            LET r == ParseList(SubSeq(ts, 3, Len(ts)))
            IN  IF r.ok
                THEN [ok |-> TRUE, node |-> [op |-> Head(ts), args |-> r.nodes],
                      rest |-> r.rest]
                ELSE Reject
        ELSE Reject
    ELSE IF Head(ts) \notin Keywords /\ LetterRun(Head(ts)) = Len(Head(ts)) THEN
        [ok |-> TRUE, node |-> [op |-> "atom", args |-> <<Head(ts)>>], rest |-> Tail(ts)]
    ELSE Reject

\* Predicates separated by commas up to the closing parenthesis: [ok, nodes, rest].
ParseList(ts) ==
    IF ts = <<>> THEN Reject
    ELSE IF Head(ts) = ")" THEN [ok |-> TRUE, nodes |-> <<>>, rest |-> Tail(ts)]
    ELSE LET r == ParsePred(ts)
         IN  IF ~r.ok \/ r.rest = <<>> THEN Reject
             ELSE IF Head(r.rest) = ")"
                  THEN [ok |-> TRUE, nodes |-> <<r.node>>, rest |-> Tail(r.rest)]
             ELSE IF Head(r.rest) = "," THEN
                  LET t == ParseList(Tail(r.rest))
                  IN  IF t.ok THEN [ok |-> TRUE, nodes |-> <<r.node>> \o t.nodes,
                                    rest |-> t.rest]
                      ELSE Reject
             ELSE Reject

\* PlatformPredicate::parse: the predicate inside cfg(...), or a
\* PredicateParseError carrying the text that did not parse.
Parse(expr) ==
    LET ts == Lex(expr)
        r == ParsePred(SubSeq(ts, 3, Len(ts)))
    IN  IF Len(ts) >= 3 /\ ts[1] = "cfg" /\ ts[2] = "(" /\ r.ok /\ r.rest = <<")">>
        THEN Ok(r.node)
        ELSE Err([kind |-> "PredicateParseError", text |-> expr])

\* PlatformPredicate::eval.
RECURSIVE Eval(_, _)
Eval(node, pcfg) ==
    CASE node.op = "atom" ->
            (node.args[1] = "true") \/ (node.args[1] # "false" /\ node.args[1] \in pcfg)
      [] node.op = "not" -> ~Eval(node.args[1], pcfg)
      [] node.op = "any" -> \E k \in 1..Len(node.args) : Eval(node.args[k], pcfg)
      [] node.op = "all" -> \A k \in 1..Len(node.args) : Eval(node.args[k], pcfg)

(***************************************************************************)
(* RuleRef (buck.rs:42-86).                                                *)
(***************************************************************************)
\* RuleRef::new
RuleRefNew(target) == [target |-> target, platform |-> None]

\* RuleRef::with_platform; `platform` is an Option<&PlatformExpr>.
WithPlatform(r, platform) == [target |-> r.target, platform |-> platform]

\* RuleRef::has_platform
HasPlatform(r) == r.platform.some

\* A bug filter could have: a predicate that does not parse counts as true.
FilterLenient(r, pcfg) ==
    IF ~r.platform.some THEN Ok(TRUE)
    ELSE IF Parse(r.platform.val).ok
         THEN Ok(Eval(Parse(r.platform.val).val, pcfg))
         ELSE Ok(TRUE)

\* RuleRef::filter
Filter(r, pcfg) ==
    IF ~r.platform.some THEN Ok(TRUE)
    ELSE LET cfg == Parse(r.platform.val)
         IN  IF ~cfg.ok THEN Err(cfg.err)
             ELSE Ok(Eval(cfg.val, pcfg))

\* impl Serialize for RuleRef: the target alone.
SerializeRuleRef(r) == r.target

\* derive(Ord) on Option<PlatformExpr>: None first, then by text.
OptLess(a, b) ==
    IF ~a.some THEN b.some
    ELSE b.some /\ StrLess(a.val, b.val)

\* derive(Ord) on RuleRef: by target, then by platform.
RuleRefLess(a, b) ==
    StrLess(a.target, b.target)
    \/ (a.target = b.target /\ OptLess(a.platform, b.platform))

(***************************************************************************)
(* Serialized values: what a Serialize impl hands to the serializer.       *)
(* A struct is a sequence of entries [key, val] in field order; a field    *)
(* marked skip_serializing_if contributes no entry when its test holds.    *)
(***************************************************************************)
VStr(s) == [t |-> "str", s |-> s]
VBool(b) == [t |-> "bool", b |-> b]
VNone == [t |-> "none"]
VList(items) == [t |-> "list", items |-> items]
VMap(entries) == [t |-> "map", entries |-> entries]
VCall(fn, entries) == [t |-> "call", fn |-> fn, entries |-> entries]
VErr(msg) == [t |-> "err", msg |-> msg]

Entry(key, val) == [key |-> key, val |-> val]
Field(key, skip, val) == IF skip THEN <<>> ELSE <<Entry(key, val)>>

Units(s) == [k \in 1..Len(s) |-> CharAt(s, k)]

PathVal(p) ==
    IF SerializeBuckPath(p).ok THEN VStr(SerializeBuckPath(p).val)
    ELSE VErr(SerializeBuckPath(p).err)

OptVal(o) == IF o.some THEN VStr(o.val) ELSE VNone

\* BTreeSet<String>, BTreeSet<BuckPath>, BTreeSet<RuleRef>: in ascending order.
StrSetVal(S) == VList([k \in 1..Cardinality(S) |-> VStr(SortedSeq(S, StrLess)[k])])
PathSetVal(S) == VList([k \in 1..Cardinality(S) |-> PathVal(SortedSeq(S, PathLess)[k])])
RefSetVal(S) ==
    VList([k \in 1..Cardinality(S) |->
              VStr(SerializeRuleRef(SortedSeq(S, RuleRefLess)[k]))])

\* Vec<String>, Vec<BuckPath>, Vec<RuleRef>: in the order held.
StrVecVal(v) == VList([k \in 1..Len(v) |-> VStr(v[k])])
PathVecVal(v) == VList([k \in 1..Len(v) |-> PathVal(v[k])])
RefVecVal(v) == VList([k \in 1..Len(v) |-> VStr(SerializeRuleRef(v[k]))])

\* BTreeMap<String, _>: a function from its keys, in ascending key order.
Keys(m) == SortedSeq(DOMAIN m, StrLess)
StrMapVal(m) == VMap([k \in 1..Len(Keys(m)) |-> Entry(Keys(m)[k], VStr(m[Keys(m)[k]]))])
PathMapVal(m) == VMap([k \in 1..Len(Keys(m)) |-> Entry(Keys(m)[k], PathVal(m[Keys(m)[k]]))])
RefMapVal(m) ==
    VMap([k \in 1..Len(Keys(m)) |->
             Entry(Keys(m)[k], VStr(SerializeRuleRef(m[Keys(m)[k]])))])

EmptyMap == <<>>

\* A bug visibility could have: nothing but the empty list.
VisibilityAlwaysEmpty(vis) == VList(<<>>)

\* fn visibility (buck.rs:121-123)
Visibility(vis) == IF vis THEN VList(<<VStr("PUBLIC")>>) ELSE VList(<<>>)

\* fn serialize_name_as_label (buck.rs:117-119)
SerializeNameAsLabel(name) == VStr(":" \o name)

\* struct Alias (buck.rs:103-115)
SerializeAlias(a) ==
    Field("name", FALSE, VStr(a.name))
    \o Field("actual", FALSE, SerializeNameAsLabel(a.actual))
    \o Field("visibility", FALSE, Visibility(a.public))

\* struct Common (buck.rs:125-134)
SerializeCommon(c) ==
    Field("name", FALSE, VStr(c.name))
    \o Field("visibility", FALSE, Visibility(c.public))
    \o Field("licenses", c.licenses = {}, PathSetVal(c.licenses))
    \o Field("compatible_with", c.compatible_with = <<>>, RefVecVal(c.compatible_with))

\* A bug the skip attributes could have: rustc_flags is emitted even when empty.
SerializePlatformRustCommonNoSkip(a) ==
    Field("srcs", a.srcs = {}, PathSetVal(a.srcs))
    \o Field("mapped_srcs", DOMAIN a.mapped_srcs = {}, PathMapVal(a.mapped_srcs))
    \o Field("rustc_flags", FALSE, StrVecVal(a.rustc_flags))
    \o Field("features", a.features = {}, StrSetVal(a.features))
    \o Field("deps", a.deps = {}, RefSetVal(a.deps))
    \o Field("named_deps", DOMAIN a.named_deps = {}, RefMapVal(a.named_deps))
    \o Field("env", DOMAIN a.env = {}, StrMapVal(a.env))
    \o Field("link_style", ~a.link_style.some, OptVal(a.link_style))
    \o Field("preferred_linkage", ~a.preferred_linkage.some, OptVal(a.preferred_linkage))

\* struct PlatformRustCommon (buck.rs:141-168)
SerializePlatformRustCommon(a) ==
    Field("srcs", a.srcs = {}, PathSetVal(a.srcs))
    \o Field("mapped_srcs", DOMAIN a.mapped_srcs = {}, PathMapVal(a.mapped_srcs))
    \o Field("rustc_flags", a.rustc_flags = <<>>, StrVecVal(a.rustc_flags))
    \o Field("features", a.features = {}, StrSetVal(a.features))
    \o Field("deps", a.deps = {}, RefSetVal(a.deps))
    \o Field("named_deps", DOMAIN a.named_deps = {}, RefMapVal(a.named_deps))
    \o Field("env", DOMAIN a.env = {}, StrMapVal(a.env))
    \o Field("link_style", ~a.link_style.some, OptVal(a.link_style))
    \o Field("preferred_linkage", ~a.preferred_linkage.some, OptVal(a.preferred_linkage))

\* A bug serialize_platforms_dict could have: the values are left as plain
\* structs, which the serializer writes as map literals.
SerializePlatformsPlain(platforms) ==
    VMap([k \in 1..Len(Keys(platforms)) |->
             Entry(Keys(platforms)[k],
                   VMap(SerializePlatformRustCommon(platforms[Keys(platforms)[k]])))])

\* A filter serialize_platforms_dict does not have: only the keys that
\* Config.platform knows are written.
SerializePlatformsKnown(platforms) ==
    LET ks == SortedSeq(DOMAIN platforms \cap DOMAIN platformMap, StrLess)
    IN  VMap([k \in 1..Len(ks) |->
                 Entry(ks[k], VCall("dict", SerializePlatformRustCommon(platforms[ks[k]])))])

\* fn serialize_platforms_dict (buck.rs:216-228): collect_map over the BTreeMap,
\* each value wrapped in the newtype struct named "call:dict".
SerializePlatformsDict(platforms) ==
    VMap([k \in 1..Len(Keys(platforms)) |->
             Entry(Keys(platforms)[k],
                   VCall("dict", SerializePlatformRustCommon(platforms[Keys(platforms)[k]])))])

\* struct RustCommon (buck.rs:170-189)
SerializeRustCommon(c) ==
    SerializeCommon(c.common)
    \o Field("crate", FALSE, VStr(c.krate))
    \o Field("crate_root", FALSE, PathVal(c.rootmod))
    \o Field("edition", FALSE, VStr(c.edition))
    \o SerializePlatformRustCommon(c.base)
    \o Field("platform", DOMAIN c.platform = {}, SerializePlatformsDict(c.platform))

\* struct RustLibrary (buck.rs:234-246)
SerializeRustLibrary(l) ==
    SerializeRustCommon(l.common)
    \o Field("proc_macro", ~l.proc_macro, VBool(l.proc_macro))
    \o Field("dlopen_enable", ~l.dlopen_enable, VBool(l.dlopen_enable))
    \o Field("python_ext", ~l.python_ext.some, OptVal(l.python_ext))
    \o Field("linkable_alias", ~l.linkable_alias.some, OptVal(l.linkable_alias))

\* struct RustBinary (buck.rs:248-252)
SerializeRustBinary(b) == SerializeRustCommon(b.common)

\* struct BuildscriptGenrule (buck.rs:254-266)
SerializeBuildscriptGenrule(g) ==
    Field("name", FALSE, VStr(g.name))
    \o Field("buildscript_rule", FALSE, VStr(SerializeRuleRef(g.buildscript_rule)))
    \o Field("package_name", FALSE, VStr(g.package_name))
    \o Field("version", FALSE, VStr(g.version))
    \o Field("features", FALSE, StrSetVal(g.features))
    \o Field("cfgs", FALSE, StrVecVal(g.cfgs))
    \o Field("env", DOMAIN g.env = {}, StrMapVal(g.env))
    \o Field("path_env", DOMAIN g.path_env = {}, StrMapVal(g.path_env))

\* struct BuildscriptGenruleFilter (buck.rs:268-273)
SerializeBuildscriptGenruleFilter(f) ==
    SerializeBuildscriptGenrule(f.base)
    \o Field("outfile", FALSE, VStr(f.outfile))

\* struct BuildscriptGenruleSrcs (buck.rs:275-282)
SerializeBuildscriptGenruleSrcs(g) ==
    SerializeBuildscriptGenrule(g.base)
    \o Field("files", FALSE, StrSetVal(g.files))
    \o Field("srcs", g.srcs = {}, PathSetVal(g.srcs))

\* SetOrMap<BuckPath> (crate::collection): [set |-> S] or [map |-> m].
SetOrMapIsEmpty(x) == IF x.shape = "set" THEN x.set = {} ELSE DOMAIN x.map = {}
SetOrMapVal(x) == IF x.shape = "set" THEN PathSetVal(x.set) ELSE PathMapVal(x.map)

\* struct CxxLibrary (buck.rs:284-303)
SerializeCxxLibrary(l) ==
    SerializeCommon(l.common)
    \o Field("srcs", FALSE, PathSetVal(l.srcs))
    \o Field("headers", FALSE, PathSetVal(l.headers))
    \o Field("exported_headers", SetOrMapIsEmpty(l.exported_headers),
             SetOrMapVal(l.exported_headers))
    \o Field("compiler_flags", l.compiler_flags = <<>>, StrVecVal(l.compiler_flags))
    \o Field("preprocessor_flags", l.preprocessor_flags = <<>>,
             StrVecVal(l.preprocessor_flags))
    \o Field("header_namespace", ~l.header_namespace.some, OptVal(l.header_namespace))
    \o Field("include_directories", l.include_directories = <<>>,
             PathVecVal(l.include_directories))
    \o Field("deps", l.deps = {}, RefSetVal(l.deps))
    \o Field("preferred_linkage", FALSE, OptVal(l.preferred_linkage))

\* struct PrebuiltCxxLibrary (buck.rs:305-310)
SerializePrebuiltCxxLibrary(l) ==
    SerializeCommon(l.common)
    \o Field("static_lib", FALSE, PathVal(l.static_lib))

(***************************************************************************)
(* The Starlark text of a function call (serde_starlark::function_call,    *)
(* an external crate): NAME(, one "key = value," line per entry, ).        *)
(* A map is written as a literal {"k": v}; a value whose struct name is    *)
(* "call:NAME" is written as the call NAME(k = v).                         *)
(***************************************************************************)
Quote(s) == "\"" \o s \o "\""

RECURSIVE Join(_, _)
Join(ss, sep) ==
    IF ss = <<>> THEN ""
    ELSE IF Len(ss) = 1 THEN Head(ss)
    ELSE Head(ss) \o sep \o Join(Tail(ss), sep)

RECURSIVE HasErr(_)
HasErr(v) ==
    CASE v.t = "err" -> TRUE
      [] v.t = "list" -> \E k \in 1..Len(v.items) : HasErr(v.items[k])
      [] v.t \in {"map", "call"} -> \E k \in 1..Len(v.entries) : HasErr(v.entries[k].val)
      [] OTHER -> FALSE

RECURSIVE ValueText(_)
ValueText(v) ==
    CASE v.t = "str" -> Quote(v.s)
      [] v.t = "bool" -> IF v.b THEN "True" ELSE "False"
      [] v.t = "none" -> "None"
      [] v.t = "list" ->
            "[" \o Join([k \in 1..Len(v.items) |-> ValueText(v.items[k])], ", ") \o "]"
      [] v.t = "map" ->
            "{" \o Join([k \in 1..Len(v.entries) |->
                            Quote(v.entries[k].key) \o ": " \o ValueText(v.entries[k].val)],
                        ", ") \o "}"
      [] v.t = "call" ->
            v.fn \o "(" \o Join([k \in 1..Len(v.entries) |->
                            v.entries[k].key \o " = " \o ValueText(v.entries[k].val)],
                        ", ") \o ")"

\* serde_starlark::function_call: the text, or the first serializer error.
FunctionCall(fn, entries) ==
    IF \E k \in 1..Len(entries) : HasErr(entries[k].val)
    THEN Err("EncodingError")
    ELSE Ok(fn \o "(\n"
            \o Concat([k \in 1..Len(entries) |->
                  "    " \o entries[k].key \o " = " \o ValueText(entries[k].val) \o ",\n"])
            \o ")")

(***************************************************************************)
(* enum Rule (buck.rs:312-436).                                            *)
(***************************************************************************)
\* Rule::get_name
GetName(rule) ==
    CASE rule.variant = "Alias" -> rule.name
      [] rule.variant \in {"Binary", "Library"} -> rule.common.common.name
      [] rule.variant \in {"BuildscriptGenruleSrcs", "BuildscriptGenruleFilter"} ->
            rule.base.name
      [] rule.variant \in {"CxxLibrary", "PrebuiltCxxLibrary"} -> rule.common.name

\* A bug rule_sort_key could have: an alias sorts under its own name.
RuleSortKeyOwnName(rule) ==
    IF rule.variant = "Alias" THEN <<rule.name, 0>> ELSE <<GetName(rule), 1>>

\* fn rule_sort_key
RuleSortKey(rule) ==
    IF rule.variant = "Alias" THEN <<rule.actual, 0>> ELSE <<GetName(rule), 1>>

\* Ord on (&Name, usize): by name, then by tier.
KeyLess(a, b) == StrLess(a[1], b[1]) \/ (a[1] = b[1] /\ a[2] < b[2])

\* impl Ord for Rule: "Less", "Equal" or "Greater".
RuleCmp(x, y) ==
    IF KeyLess(RuleSortKey(x), RuleSortKey(y)) THEN "Less"
    ELSE IF KeyLess(RuleSortKey(y), RuleSortKey(x)) THEN "Greater"
    ELSE "Equal"

\* impl PartialEq for Rule
RuleEq(x, y) == GetName(x) = GetName(y)

\* The entries the rule's variant serializes to.
SerializeRule(rule) ==
    CASE rule.variant = "Alias" -> SerializeAlias(rule)
      [] rule.variant = "Binary" -> SerializeRustBinary(rule)
      [] rule.variant = "Library" -> SerializeRustLibrary(rule)
      [] rule.variant = "BuildscriptGenruleFilter" -> SerializeBuildscriptGenruleFilter(rule)
      [] rule.variant = "BuildscriptGenruleSrcs" -> SerializeBuildscriptGenruleSrcs(rule)
      [] rule.variant = "CxxLibrary" -> SerializeCxxLibrary(rule)
      [] rule.variant = "PrebuiltCxxLibrary" -> SerializePrebuiltCxxLibrary(rule)

\* The function name Rule::render passes to function_call, per variant.
RuleFn(rule, cfg) ==
    CASE rule.variant = "Alias" -> cfg.alias.value
      [] rule.variant = "Binary" -> cfg.rust_binary.value
      [] rule.variant = "Library" -> cfg.rust_library.value
      [] rule.variant = "BuildscriptGenruleFilter" -> cfg.buildscript_genrule_args.value
      [] rule.variant = "BuildscriptGenruleSrcs" -> cfg.buildscript_genrule_srcs.value
      [] rule.variant = "CxxLibrary" -> cfg.cxx_library.value
      [] rule.variant = "PrebuiltCxxLibrary" -> cfg.prebuilt_cxx_library.value

\* The text Rule::render writes before its newline, or the serializer's error.
RenderText(rule, cfg) == FunctionCall(RuleFn(rule, cfg), SerializeRule(rule))

(***************************************************************************)
(* BuckConfig (config.rs:105-144) and StringWithDefault (config.rs:166-228).*)
(* Rule::render also reads buildscript_genrule_args and                    *)
(* buildscript_genrule_srcs (buck.rs:413, 419), which the struct in        *)
(* config.rs does not declare; the model carries them as two more knobs.   *)
(***************************************************************************)
\* StringWithDefault::default
Default(v) == [value |-> v, is_default |-> TRUE]

\* impl From<String> for StringWithDefault
From(v) == [value |-> v, is_default |-> FALSE]

MkConfig(header, imports, alias, lib, bin, cxx, prebuilt, genrule, args, srcs) ==
    [file_name |-> Default("BUCK"),
     generated_file_header |-> header,
     buckfile_imports |-> imports,
     alias |-> alias,
     rust_library |-> lib,
     rust_binary |-> bin,
     cxx_library |-> cxx,
     prebuilt_cxx_library |-> prebuilt,
     buildscript_genrule |-> genrule,
     buildscript_genrule_args |-> args,
     buildscript_genrule_srcs |-> srcs]

\* BuckConfig::default with the given header and imports.
DefaultConfig(header, imports) ==
    MkConfig(header, imports, Default("alias"), Default("rust_library"),
             Default("rust_binary"), Default("cxx_library"),
             Default("prebuilt_cxx_library"), Default("buildscript_run"),
             Default("buildscript_run"), Default("buildscript_run"))

(***************************************************************************)
(* Rule values.  The core receives them fully built; these build the       *)
(* values the model draws its inputs from.  A mask names the fields that   *)
(* carry a value other than their default.                                 *)
(***************************************************************************)
DefaultAttrs ==
    [srcs |-> {}, mapped_srcs |-> EmptyMap, rustc_flags |-> <<>>, features |-> {},
     deps |-> {}, named_deps |-> EmptyMap, env |-> EmptyMap,
     link_style |-> None, preferred_linkage |-> None]

AttrFields == {"srcs", "mapped_srcs", "rustc_flags", "features", "deps",
               "named_deps", "env", "link_style", "preferred_linkage"}

AttrsWith(mask) ==
    [srcs |-> IF "srcs" \in mask THEN {Units("src/lib.rs"), Units("src\\a.rs")} ELSE {},
     mapped_srcs |-> IF "mapped_srcs" \in mask THEN ("gen.rs" :> Units("out/gen.rs"))
                     ELSE EmptyMap,
     rustc_flags |-> IF "rustc_flags" \in mask THEN <<"--cfg", "x">> ELSE <<>>,
     features |-> IF "features" \in mask THEN {"std", "alloc"} ELSE {},
     deps |-> IF "deps" \in mask THEN {RuleRefNew("//x:y")} ELSE {},
     named_deps |-> IF "named_deps" \in mask THEN ("z" :> RuleRefNew(":z-1")) ELSE EmptyMap,
     env |-> IF "env" \in mask THEN ("K" :> "v") ELSE EmptyMap,
     link_style |-> IF "link_style" \in mask THEN Some("static") ELSE None,
     preferred_linkage |-> IF "preferred_linkage" \in mask THEN Some("any") ELSE None]

Linux == "linux-x86_64"
MacOS == "macos"

\* The per-platform override maps the model draws from.
PlatformMaps ==
    {EmptyMap,
     (Linux :> DefaultAttrs),
     (MacOS :> AttrsWith(AttrFields)) @@ (Linux :> AttrsWith({"deps"}))}
    \cup {(Linux :> AttrsWith({f})) : f \in AttrFields}

\* Config.platform (config.rs:90-91): the platforms the configuration knows,
\* each with its PlatformConfig (the attributes a predicate is tested against).
DefaultPlatforms == (Linux :> {"unix"}) @@ (MacOS :> {"unix"})

ConfigPlatforms ==
    {EmptyMap, (Linux :> {"unix"}), DefaultPlatforms}

MkCommon(name, mask) ==
    [name |-> name,
     public |-> "public" \in mask,
     licenses |-> IF "licenses" \in mask THEN {Units("LICENSE")} ELSE {},
     compatible_with |-> IF "compatible_with" \in mask THEN <<RuleRefNew("//os:linux")>>
                         ELSE <<>>]

CommonFields == {"public", "licenses", "compatible_with"}

MkRustCommon(name, mask, platform) ==
    [common |-> MkCommon(name, mask),
     krate |-> "foo",
     rootmod |-> Units("src/lib.rs"),
     edition |-> "2021",
     base |-> AttrsWith(mask),
     platform |-> platform]

LibraryOnlyFields == {"proc_macro", "dlopen_enable", "python_ext", "linkable_alias"}

MkLibrary(name, mask, platform) ==
    [variant |-> "Library",
     common |-> MkRustCommon(name, mask, platform),
     proc_macro |-> "proc_macro" \in mask,
     dlopen_enable |-> "dlopen_enable" \in mask,
     python_ext |-> IF "python_ext" \in mask THEN Some("ext") ELSE None,
     linkable_alias |-> IF "linkable_alias" \in mask THEN Some("la") ELSE None]

MkBinary(name, mask, platform) ==
    [variant |-> "Binary", common |-> MkRustCommon(name, mask, platform)]

MkAlias(name, actual, public) ==
    [variant |-> "Alias", name |-> name, actual |-> actual, public |-> public]

GenruleFields == {"features", "cfgs", "env", "path_env"}

MkGenrule(name, mask) ==
    [name |-> name,
     buildscript_rule |-> RuleRefNew(":" \o name \o "-build-script-build"),
     package_name |-> "foo",
     version |-> "1.0.0",
     features |-> IF "features" \in mask THEN {"std"} ELSE {},
     cfgs |-> IF "cfgs" \in mask THEN <<"x">> ELSE <<>>,
     env |-> IF "env" \in mask THEN ("K" :> "v") ELSE EmptyMap,
     path_env |-> IF "path_env" \in mask THEN ("P" :> "dir") ELSE EmptyMap]

MkFilter(name, mask) ==
    [variant |-> "BuildscriptGenruleFilter", base |-> MkGenrule(name, mask),
     outfile |-> "args.txt"]

MkSrcs(name, mask) ==
    [variant |-> "BuildscriptGenruleSrcs", base |-> MkGenrule(name, mask),
     files |-> IF "files" \in mask THEN {"gen.rs"} ELSE {},
     srcs |-> IF "srcs" \in mask THEN {Units("build.rs")} ELSE {}]

CxxFields == {"srcs", "headers", "exported_headers", "exported_headers_map",
              "compiler_flags", "preprocessor_flags", "header_namespace",
              "include_directories", "deps", "preferred_linkage"}

MkCxx(name, mask) ==
    [variant |-> "CxxLibrary",
     common |-> MkCommon(name, mask),
     srcs |-> IF "srcs" \in mask THEN {Units("c/a.c")} ELSE {},
     headers |-> IF "headers" \in mask THEN {Units("c/a.h")} ELSE {},
     exported_headers |->
        IF "exported_headers_map" \in mask
        THEN [shape |-> "map", map |-> ("foo.h" :> Units("include/foo.h"))]
        ELSE IF "exported_headers" \in mask
        THEN [shape |-> "set", set |-> {Units("include/foo.h")}]
        ELSE IF "exported_headers_empty_map" \in mask
        THEN [shape |-> "map", map |-> EmptyMap]
        ELSE [shape |-> "set", set |-> {}],
     compiler_flags |-> IF "compiler_flags" \in mask THEN <<"-O2">> ELSE <<>>,
     preprocessor_flags |-> IF "preprocessor_flags" \in mask THEN <<"-DX">> ELSE <<>>,
     header_namespace |-> IF "header_namespace" \in mask THEN Some("ns") ELSE None,
     include_directories |-> IF "include_directories" \in mask THEN <<Units("include")>>
                             ELSE <<>>,
     deps |-> IF "deps" \in mask THEN {RuleRefNew(":z")} ELSE {},
     preferred_linkage |-> IF "preferred_linkage" \in mask THEN Some("static") ELSE None]

MkPrebuilt(name, mask, static_lib) ==
    [variant |-> "PrebuiltCxxLibrary", common |-> MkCommon(name, mask),
     static_lib |-> static_lib]

(***************************************************************************)
(* The sink (out: &mut impl Write).  A sink either takes every byte        *)
(* (cap = -1) or has room for cap bytes; one that is full either takes the *)
(* part of a buffer that fits before it reports the error (partial, as a   *)
(* byte slice or a file on a full disk does) or rejects the buffer whole.  *)
(***************************************************************************)
Unbounded == -1

Sinks ==
    {[buf |-> "", cap |-> Unbounded, partial |-> FALSE]}
    \cup {[buf |-> "", cap |-> k * CapStride, partial |-> p] :
              k \in 0..MaxCap, p \in BOOLEAN}

Fresh(sink) == [sink EXCEPT !.buf = ""]

\* Write::write_all: [sink, ok, accepted].  An empty buffer never reaches the sink.
WriteAll(sink, data) ==
    LET room == sink.cap - Len(sink.buf)
    IN  IF data = "" \/ sink.cap = Unbounded \/ Len(data) <= room
        THEN [sink |-> [sink EXCEPT !.buf = @ \o data], ok |-> TRUE,
              accepted |-> Len(data)]
        ELSE IF sink.partial /\ room > 0
        THEN [sink |-> [sink EXCEPT !.buf = @ \o SubSeq(data, 1, room)], ok |-> FALSE,
              accepted |-> room]
        ELSE [sink |-> sink, ok |-> FALSE, accepted |-> 0]

(***************************************************************************)
(* write_buckfile (buck.rs:438-461), one action per write_all call.        *)
(***************************************************************************)
NoFail == [kind |-> "none", at |-> "", rule |-> 0, accepted |-> 0]
NoFirst == [buf |-> "", result |-> "none"]

\* A bug the header could have: it is written by the first call only.
HeaderOnce(cfg) == IF run = 1 THEN cfg.generated_file_header.value ELSE ""

\* config.generated_file_header
Header(cfg) == cfg.generated_file_header.value

\* config.buckfile_imports
Imports(cfg) == cfg.buckfile_imports.value

\* A bug the loop could have: a separator before the first rule too.
NeedsSeparatorAlways(i) == TRUE

\* `if i > 0` (buck.rs:454): a blank line before every rule but the first.
NeedsSeparator(i) == i > 0

\* Where the for loop goes with i rules emitted.
LoopPc(i) ==
    IF i >= Len(rules) THEN "done"
    ELSE IF NeedsSeparator(i) THEN "sep" ELSE "render"

\* A bug the error path could have: the loop goes on to the next rule.
AfterFailureSkip(at) ==
    IF at \in {"sep", "render", "render_nl"} /\ idx + 1 < Len(rules)
    THEN "sep" ELSE "done"

\* `?`: the first error ends the call.
AfterFailure(at) == "done"

\* One out.write_all(data)? at position `at`; on success go to `next`.
WriteStep(at, data, next, nextIdx) ==
    LET w == WriteAll(out, data)
    IN  /\ pc = at
        /\ out' = w.sink
        /\ IF w.ok
           THEN /\ pc' = next
                /\ idx' = nextIdx
                /\ result' = IF next = "done" THEN "ok" ELSE "none"
                /\ fail' = fail
           ELSE /\ pc' = AfterFailure(at)
                /\ idx' = IF pc' = "done" THEN idx ELSE idx + 1
                /\ result' = IF pc' = "done" THEN "err" ELSE "none"
                /\ fail' = [kind |-> "sink", at |-> at, rule |-> idx,
                            accepted |-> w.accepted]
        /\ UNCHANGED <<config, rules, run, first, ref, platcfg, platformMap, path>>

WriteHeader ==
    /\ WriteStep("header", Header(config),
                 IF Header(config) # "" THEN "header_nl" ELSE "imports", idx)
    /\ UNCHANGED emitted

WriteHeaderNewline ==
    /\ WriteStep("header_nl", "\n", "imports", idx)
    /\ UNCHANGED emitted

WriteImports ==
    /\ WriteStep("imports", Imports(config),
                 IF Imports(config) # "" THEN "imports_nl" ELSE LoopPc(0), idx)
    /\ UNCHANGED emitted

WriteImportsNewline ==
    /\ WriteStep("imports_nl", "\n", LoopPc(0), idx)
    /\ UNCHANGED emitted

WriteSeparator ==
    /\ WriteStep("sep", "\n", "render", idx)
    /\ UNCHANGED emitted

\* Rule::render up to its first write: function_call(..)? and write_all of the text.
RenderRule ==
    /\ pc = "render"
    /\ LET t == RenderText(rules[idx + 1], config)
       IN  IF t.ok
           THEN /\ WriteStep("render", t.val, "render_nl", idx)
                /\ emitted' = IF pc' = "render_nl" THEN Append(emitted, rules[idx + 1])
                               ELSE emitted
           ELSE /\ pc' = AfterFailure("render")
                /\ idx' = IF pc' = "done" THEN idx ELSE idx + 1
                /\ result' = IF pc' = "done" THEN "err" ELSE "none"
                /\ fail' = [kind |-> "ser", at |-> "render", rule |-> idx, accepted |-> 0]
                /\ UNCHANGED <<config, rules, out, run, first, emitted, ref, platcfg, platformMap, path>>

\* Rule::render's out.write_all(b"\n"), then the loop's next turn.
RenderNewline ==
    /\ WriteStep("render_nl", "\n", LoopPc(idx + 1), idx + 1)
    /\ UNCHANGED emitted

\* The caller calls write_buckfile again, with the same input and a fresh sink.
CallAgain ==
    /\ pc = "done"
    /\ run = 1
    /\ first' = [buf |-> out.buf, result |-> result]
    /\ out' = Fresh(out)
    /\ run' = 2
    /\ pc' = "header"
    /\ idx' = 0
    /\ result' = "none"
    /\ fail' = NoFail
    /\ emitted' = <<>>
    /\ UNCHANGED <<config, rules, ref, platcfg, platformMap, path>>

(***************************************************************************)
(* The inputs of write_buckfile.                                           *)
(***************************************************************************)
WriteConfigs ==
    {DefaultConfig(h, i) :
        h \in {Default(""), From("# @generated")},
        i \in {Default(""), From("load(\"//r:d.bzl\", \"r\")")}}

WriteRules ==
    {MkAlias("a", "b", TRUE),
     MkAlias("c", "b", FALSE),
     MkPrebuilt("b", {}, Units("lib\\b.a")),
     MkBinary("a", {}, EmptyMap),
     MkPrebuilt("d", {"public"}, <<"d", Invalid>>)}

NoRef == RuleRefNew("")

Init ==
    /\ config \in WriteConfigs
    /\ rules \in SeqsUpTo(WriteRules, MaxRules)
    /\ out \in Sinks
    /\ pc = "header"
    /\ idx = 0
    /\ result = "none"
    /\ fail = NoFail
    /\ run = 1
    /\ first = NoFirst
    /\ emitted = <<>>
    /\ ref = NoRef
    /\ platcfg = {}
    /\ platformMap = DefaultPlatforms
    /\ path = <<>>

Next ==
    \/ WriteHeader
    \/ WriteHeaderNewline
    \/ WriteImports
    \/ WriteImportsNewline
    \/ WriteSeparator
    \/ RenderRule
    \/ RenderNewline
    \/ CallAgain

Spec == Init /\ [][Next]_vars

(***************************************************************************)
(* Properties of write_buckfile.                                           *)
(***************************************************************************)
Text(k) == RenderText(rules[k], config).val

HeaderPart == IF Header(config) # "" THEN Header(config) \o "\n" ELSE ""
ImportsPart == IF Imports(config) # "" THEN Imports(config) \o "\n" ELSE ""

\* The renderings of the first n rules, each ended by a newline, with a blank
\* line before every one but the first.
RECURSIVE RulesPart(_)
RulesPart(n) ==
    IF n = 0 THEN ""
    ELSE RulesPart(n - 1) \o (IF n > 1 THEN "\n" ELSE "") \o Text(n) \o "\n"

Finished == pc = "done"

\* C1: when write_buckfile returns Ok (the sink took every write), the sink
\* holds the header and a newline iff the header is non-empty, the imports and
\* a newline iff they are non-empty, then every rule's rendering in the order
\* received, each ended by a newline, with one blank line before every rule
\* but the first; no rule is dropped, merged or moved.
C1_SinkHoldsAllRulesInOrder ==
    (Finished /\ result = "ok") =>
        /\ out.buf = HeaderPart \o ImportsPart \o RulesPart(Len(rules))
        /\ emitted = rules

C1_Witness ==
    /\ Finished /\ result = "ok"
    /\ Len(rules) = 3
    /\ GetName(rules[1]) = GetName(rules[3])
    /\ rules[1] # rules[3]
    /\ Header(config) # "" /\ Imports(config) = ""

\* rules is in ascending order of the compound key (sort_name, tier).
SortedByKey ==
    \A i \in 1..Len(rules) : \A j \in 1..Len(rules) :
        i < j => ~KeyLess(RuleSortKey(rules[j]), RuleSortKey(rules[i]))

\* rules is a set: no rule occurs twice.
NoRepeats ==
    \A i \in 1..Len(rules) : \A j \in 1..Len(rules) : i # j => rules[i] # rules[j]

\* emitted[i] is an alias whose actual is the name of the non-alias emitted[j].
AliasOf(i, j) ==
    /\ emitted[i].variant = "Alias"
    /\ emitted[j].variant # "Alias"
    /\ emitted[i].actual = GetName(emitted[j])

Before(at, k) ==
    CASE at = "header" -> ""
      [] at = "header_nl" -> Header(config)
      [] at = "imports" -> HeaderPart
      [] at = "imports_nl" -> HeaderPart \o Imports(config)
      [] at = "sep" -> HeaderPart \o ImportsPart \o RulesPart(k)
      [] at = "render" ->
            HeaderPart \o ImportsPart \o RulesPart(k) \o (IF k > 0 THEN "\n" ELSE "")
      [] at = "render_nl" ->
            HeaderPart \o ImportsPart \o RulesPart(k) \o (IF k > 0 THEN "\n" ELSE "")
                \o Text(k + 1)

\* The buffer the step at position `at` of rule k hands to the sink.
Buffer(at, k) ==
    CASE at = "header" -> Header(config)
      [] at = "imports" -> Imports(config)
      [] at = "render" -> Text(k + 1)
      [] OTHER -> "\n"

Failed == Finished /\ result = "err"

\* C4 as stated: after a failure the sink holds exactly the bytes written by
\* the steps before the failing one.
C4_SinkHoldsStepsBeforeFailure ==
    Failed => out.buf = Before(fail.at, fail.rule)

\* C4, amended: a failed call returns the error and stops.  After a
\* serialization failure at rule k the sink holds the header, the imports, the
\* complete renderings of the rules before k with their separators and, for
\* k > 0, the blank line written before rule k, and no byte of rule k.  After a
\* rejected write it holds the bytes of the steps before the failing write,
\* followed by the leading part of the failing buffer that the sink took
\* before it reported the error.  No later rule is rendered.
C4_SinkHoldsPrefixAtFailure ==
    /\ fail.kind # "none" => Failed
    /\ Failed =>
        /\ fail.kind \in {"ser", "sink"}
        /\ fail.kind = "ser" =>
              /\ ~RenderText(rules[fail.rule + 1], config).ok
              /\ out.buf = HeaderPart \o ImportsPart \o RulesPart(fail.rule)
                              \o (IF fail.rule > 0 THEN "\n" ELSE "")
        /\ fail.kind = "sink" =>
              /\ fail.accepted < Len(Buffer(fail.at, fail.rule))
              /\ out.buf = Before(fail.at, fail.rule)
                              \o SubSeq(Buffer(fail.at, fail.rule), 1, fail.accepted)
        /\ emitted = SubSeq(rules, 1, Len(emitted))
        /\ Len(emitted) <= fail.rule + 1
        /\ Len(emitted) = fail.rule + 1 => fail.at = "render_nl"

C4_Witness ==
    /\ Failed
    /\ fail.kind = "ser"
    /\ fail.rule = 2
    /\ Len(rules) = 3

(***************************************************************************)
(* BuckPath::serialize on its own: SpecPath.                               *)
(***************************************************************************)
PathUnits == {"a", ".", "/", "\\", Invalid}

InitPath ==
    /\ path \in SeqsUpTo(PathUnits, MaxPathLen)
    /\ pc = "serialize"
    /\ result = "none"
    /\ config = DefaultConfig(Default(""), Default(""))
    /\ rules = <<>>
    /\ idx = 0
    /\ out = [buf |-> "", cap |-> Unbounded, partial |-> FALSE]
    /\ fail = NoFail
    /\ run = 1
    /\ first = NoFirst
    /\ emitted = <<>>
    /\ ref = NoRef
    /\ platcfg = {}
    /\ platformMap = DefaultPlatforms

\* BuckPath::serialize(ser): the string handed to the serializer, or the error.
SerializePath ==
    /\ pc = "serialize"
    /\ result' = SerializeBuckPath(path)
    /\ pc' = "done"
    /\ UNCHANGED <<config, rules, idx, out, fail, run, first, emitted, ref, platcfg, platformMap, path>>

NextPath == SerializePath

SpecPath == InitPath /\ [][NextPath]_vars

Representable == \A k \in 1..Len(path) : path[k] # Invalid

\* C9: the string emitted for a path that is text has the length of the native
\* text, a forward slash wherever the native text has a backslash or a forward
\* slash, the native character everywhere else, and no backslash; a path that
\* is not text yields an error and no string.
C9_PathNormalized ==
    pc = "done" =>
        IF Representable
        THEN /\ result.ok
             /\ Len(result.val) = Len(path)
             /\ \A k \in 1..Len(path) :
                    /\ path[k] \in {"\\", "/"} => CharAt(result.val, k) = "/"
                    /\ path[k] \notin {"\\", "/"} => CharAt(result.val, k) = path[k]
                    /\ CharAt(result.val, k) # "\\"
        ELSE /\ ~result.ok
             /\ "val" \notin DOMAIN result

C9_Witness ==
    /\ pc = "done"
    /\ Representable
    /\ Len(path) = 3
    /\ path[1] = "\\" /\ path[2] = "a" /\ path[3] = "\\"
    /\ result.ok

(***************************************************************************)
(* RuleRef on its own: SpecRef.                                            *)
(***************************************************************************)
Targets == {":name", "//pkg:name"}

Exprs ==
    {"cfg(unix)", "cfg(not(unix))", "cfg(any(unix, windows))",
     "cfg(all(unix, windows))", "cfg(all())", "cfg(any())", "cfg(true)",
     "cfg(false)", "cfg(unix", "unix", "", "cfg(not(unix, windows))", "cfg(unix))"}

OptExprs == {None} \cup {Some(e) : e \in Exprs}

PlatformConfigs == SUBSET {"unix", "windows"}

InitRef ==
    /\ \E t \in Targets :
          /\ ref = RuleRefNew(t)
          /\ first = [ref |-> NoRef, arg |-> Some(t)]
    /\ pc = "new"
    /\ result = "none"
    /\ platcfg = {}
    /\ platformMap = DefaultPlatforms
    /\ config = DefaultConfig(Default(""), Default(""))
    /\ rules = <<>>
    /\ idx = 0
    /\ out = [buf |-> "", cap |-> Unbounded, partial |-> FALSE]
    /\ fail = NoFail
    /\ run = 1
    /\ emitted = <<>>
    /\ path = <<>>

\* ref = ref.with_platform(x)
CallWithPlatform ==
    /\ \E x \in OptExprs :
          /\ ref' = WithPlatform(ref, x)
          /\ first' = [ref |-> ref, arg |-> x]
    /\ pc' = "with_platform"
    /\ result' = "none"
    /\ UNCHANGED <<config, rules, idx, out, fail, run, emitted, platcfg, platformMap, path>>

\* ref.filter(&p)
CallFilter ==
    /\ \E p \in PlatformConfigs :
          /\ platcfg' = p
          /\ result' = Filter(ref, p)
    /\ first' = [ref |-> ref, arg |-> None]
    /\ pc' = "filter"
    /\ UNCHANGED <<config, rules, idx, out, fail, run, emitted, ref, platformMap, path>>

NextRef == CallWithPlatform \/ CallFilter

SpecRef == InitRef /\ [][NextRef]_vars

\* C5: new yields a ref without a predicate; with_platform(x) replaces the
\* predicate by x and leaves the target alone; filter(p) is Ok(true) without a
\* predicate, Ok(v) with v the evaluation under p of a predicate that parses,
\* and a PredicateParseError with no boolean for one that does not.
C5_RuleRefContract ==
    /\ pc = "new" => (~HasPlatform(ref) /\ ref.target = first.arg.val)
    /\ pc = "with_platform" =>
          /\ ref.target = first.ref.target
          /\ ref.platform = first.arg
          /\ HasPlatform(ref) = first.arg.some
    /\ pc = "filter" =>
          /\ ref = first.ref
          /\ ~ref.platform.some => result = Ok(TRUE)
          /\ (ref.platform.some /\ Parse(ref.platform.val).ok) =>
                result = Ok(Eval(Parse(ref.platform.val).val, platcfg))
          /\ (ref.platform.some /\ ~Parse(ref.platform.val).ok) =>
                /\ ~result.ok
                /\ "val" \notin DOMAIN result
                /\ result.err.kind = "PredicateParseError"

C5_Witness ==
    /\ pc = "filter"
    /\ ref.platform = Some("cfg(not(unix))")
    /\ platcfg = {"unix"}
    /\ result = Ok(FALSE)

(***************************************************************************)
(* Rule::render on its own: SpecRender.                                    *)
(***************************************************************************)
\* The sets of at most MaxFields fields, and the set of them all.
Masks(F) == {m \in SUBSET F : Cardinality(m) <= MaxFields} \cup {F}

RustFields == CommonFields \cup AttrFields
LibraryFields == RustFields \cup LibraryOnlyFields

\* Sets of RuleRef for a deps field: distinct targets, one target with and
\* without a platform predicate, and one target under two predicates.
DepSets ==
    {{RuleRefNew("//a:c"), RuleRefNew("//a:b")},
     {RuleRefNew("//a:b"), WithPlatform(RuleRefNew("//a:b"), Some("cfg(unix)"))},
     {WithPlatform(RuleRefNew("//a:c"), Some("cfg(windows)")),
      WithPlatform(RuleRefNew("//a:b"), Some("cfg(unix)")),
      WithPlatform(RuleRefNew("//a:c"), Some("cfg(unix)"))}}

RenderRules ==
    {MkAlias("foo", "foo-1.0.0", p) : p \in BOOLEAN}
    \cup {[MkLibrary("foo-1.0.0", {}, EmptyMap) EXCEPT !.common.base.deps = D] :
              D \in DepSets}
    \cup {MkLibrary("foo-1.0.0", {}, (Linux :> [DefaultAttrs EXCEPT !.deps = D])) :
              D \in DepSets}
    \cup {[MkCxx("foo-c", {}) EXCEPT !.deps = D] : D \in DepSets}
    \cup {MkLibrary("foo-1.0.0", m, EmptyMap) : m \in Masks(LibraryFields)}
    \cup {MkLibrary("foo-1.0.0", {}, p) : p \in PlatformMaps}
    \cup {MkBinary("foo-bin", m, p) :
              m \in {{}, {"public"}, RustFields},
              p \in {EmptyMap, (Linux :> AttrsWith({"deps"}))}}
    \cup {MkCxx("foo-c", m) :
              m \in Masks(CommonFields \cup CxxFields \cup {"exported_headers_empty_map"})}
    \cup {MkFilter("foo-args", m) : m \in Masks(GenruleFields)}
    \cup {MkSrcs("foo-srcs", m) : m \in Masks(GenruleFields \cup {"files", "srcs"})}
    \cup {MkPrebuilt("foo-pre", m, l) :
              m \in Masks(CommonFields),
              l \in {Units("lib\\foo.a"), <<"l", Invalid>>}}

RenderConfigs ==
    {DefaultConfig(Default(""), Default("")),
     MkConfig(Default(""), Default(""), From("alias"), From("rust_library"),
              From("rust_binary"), From("cxx_library"), From("prebuilt_cxx_library"),
              From("buildscript_run"), From("buildscript_run"), From("buildscript_run")),
     MkConfig(Default(""), Default(""), From("my_alias"), From("cargo.rust_library"),
              From("cargo.rust_binary"), From("my_cxx"), From("my_prebuilt"),
              From("my_run"), From("my_run"), From("my_run")),
     MkConfig(Default(""), Default(""), Default("alias"), Default("rust_library"),
              Default("rust_binary"), Default("cxx_library"),
              Default("prebuilt_cxx_library"), Default("buildscript_run"),
              From("buildscript_args"), From("buildscript_srcs"))}

InitRender ==
    /\ config \in RenderConfigs
    /\ \E r \in RenderRules : rules = <<r>>
    /\ pc = "render_one"
    /\ idx = 0
    /\ out = [buf |-> "", cap |-> Unbounded, partial |-> FALSE]
    /\ result = "none"
    /\ fail = NoFail
    /\ run = 1
    /\ first = NoFirst
    /\ emitted = <<>>
    /\ ref = NoRef
    /\ platcfg = {}
    /\ platformMap \in ConfigPlatforms
    /\ path = <<>>

\* rules[1].render(&config, &mut out) as a whole, on a sink that takes every byte.
RenderOne ==
    /\ pc = "render_one"
    /\ LET t == RenderText(rules[1], config)
       IN  IF t.ok
           THEN /\ out' = WriteAll(WriteAll(out, t.val).sink, "\n").sink
                /\ result' = "ok"
                /\ emitted' = <<rules[1]>>
                /\ fail' = fail
           ELSE /\ result' = "err"
                /\ fail' = [kind |-> "ser", at |-> "render", rule |-> 0, accepted |-> 0]
                /\ UNCHANGED <<out, emitted>>
    /\ pc' = "done"
    /\ UNCHANGED <<config, rules, idx, run, first, ref, platcfg, platformMap, path>>

NextRender == RenderOne

SpecRender == InitRender /\ [][NextRender]_vars

(***************************************************************************)
(* Reading the rendered text back: the function name and the arguments.    *)
(***************************************************************************)
\* The first position at which pat occurs in s, 0 when it does not.
IndexOf(s, pat) ==
    LET hits == {k \in 1..(Len(s) - Len(pat) + 1) : SubSeq(s, k, k + Len(pat) - 1) = pat}
    IN  IF hits = {} THEN 0 ELSE Min(hits)

Contains(s, pat) == IndexOf(s, pat) # 0

RECURSIVE Lines(_)
Lines(s) ==
    LET n == IndexOf(s, "\n")
    IN  IF n = 0 THEN <<s>>
        ELSE <<SubSeq(s, 1, n - 1)>> \o Lines(SubSeq(s, n + 1, Len(s)))

StartsWith(s, pat) == Len(s) >= Len(pat) /\ SubSeq(s, 1, Len(pat)) = pat

\* The name of the function the text calls.
FnName(text) == SubSeq(text, 1, IndexOf(text, "(") - 1)

IsArgLine(line) == StartsWith(line, "    ")

\* One argument line, "    key = value,", as [key, val].
ArgOf(line) ==
    LET n == IndexOf(line, " = ")
    IN  [key |-> SubSeq(line, 5, n - 1), val |-> SubSeq(line, n + 3, Len(line) - 1)]

\* The arguments of the call, in order: [key, val], val being the value's text.
Args(text) ==
    LET ls == Lines(text)
        at == SortedSeq({k \in 1..Len(ls) : IsArgLine(ls[k])}, <)
    IN  [k \in 1..Len(at) |-> ArgOf(ls[at[k]])]

HasArg(text, key) ==
    LET a == Args(text) IN \E k \in 1..Len(a) : a[k].key = key

\* The texts of the arguments named key.
ArgVals(text, key) ==
    LET a == Args(text) IN {a[k].val : k \in {j \in 1..Len(a) : a[j].key = key}}

\* How many arguments are named key.
ArgCount(text, key) ==
    LET a == Args(text) IN Cardinality({k \in 1..Len(a) : a[k].key = key})

Rendered == pc = "done" /\ result = "ok" /\ Len(rules) = 1

Rule1 == rules[1]

(***************************************************************************)
(* Properties of the rendered text.                                        *)
(***************************************************************************)
BuildscriptVariants == {"BuildscriptGenruleFilter", "BuildscriptGenruleSrcs"}
RustVariants == {"Library", "Binary"}

\* The fields of Common with an empty default: <<argument, holds its default>>.
OmitCommon(c) ==
    {<<"licenses", c.licenses = {}>>, <<"compatible_with", c.compatible_with = <<>>>>}

\* The fields of a PlatformAttrs.
OmitAttrs(a) ==
    {<<"srcs", a.srcs = {}>>,
     <<"mapped_srcs", DOMAIN a.mapped_srcs = {}>>,
     <<"rustc_flags", a.rustc_flags = <<>>>>,
     <<"features", a.features = {}>>,
     <<"deps", a.deps = {}>>,
     <<"named_deps", DOMAIN a.named_deps = {}>>,
     <<"env", DOMAIN a.env = {}>>,
     <<"link_style", a.link_style = None>>,
     <<"preferred_linkage", a.preferred_linkage = None>>}

OmitRust(c) ==
    OmitCommon(c.common) \cup OmitAttrs(c.base)
    \cup {<<"platform", DOMAIN c.platform = {}>>}

OmitGenrule(g) ==
    {<<"features", g.features = {}>>, <<"cfgs", g.cfgs = <<>>>>,
     <<"env", DOMAIN g.env = {}>>, <<"path_env", DOMAIN g.path_env = {}>>}

\* Every collection, option and omit-when-false field of the rule.
Omittable(r) ==
    CASE r.variant = "Alias" -> {}
      [] r.variant = "Binary" -> OmitRust(r.common)
      [] r.variant = "Library" ->
            OmitRust(r.common)
            \cup {<<"proc_macro", ~r.proc_macro>>, <<"dlopen_enable", ~r.dlopen_enable>>,
                  <<"python_ext", r.python_ext = None>>,
                  <<"linkable_alias", r.linkable_alias = None>>}
      [] r.variant = "BuildscriptGenruleFilter" -> OmitGenrule(r.base)
      [] r.variant = "BuildscriptGenruleSrcs" ->
            OmitGenrule(r.base) \cup {<<"files", r.files = {}>>, <<"srcs", r.srcs = {}>>}
      [] r.variant = "CxxLibrary" ->
            OmitCommon(r.common)
            \cup {<<"srcs", r.srcs = {}>>, <<"headers", r.headers = {}>>,
                  <<"exported_headers",
                    IF r.exported_headers.shape = "set" THEN r.exported_headers.set = {}
                    ELSE DOMAIN r.exported_headers.map = {}>>,
                  <<"compiler_flags", r.compiler_flags = <<>>>>,
                  <<"preprocessor_flags", r.preprocessor_flags = <<>>>>,
                  <<"header_namespace", r.header_namespace = None>>,
                  <<"include_directories", r.include_directories = <<>>>>,
                  <<"deps", r.deps = {}>>,
                  <<"preferred_linkage", r.preferred_linkage = None>>}
      [] r.variant = "PrebuiltCxxLibrary" -> OmitCommon(r.common)

\* The per-platform overrides of the rule.
Overrides(r) == IF r.variant \in RustVariants THEN r.common.platform ELSE EmptyMap

\* The text between the parentheses of platform k's dict(...) in the value v.
Segment(v, k) ==
    LET start == IndexOf(v, Quote(k) \o ": dict(") + Len(Quote(k) \o ": dict(")
        rest == SubSeq(v, start, Len(v))
    IN  SubSeq(rest, 1, IndexOf(rest, ")") - 1)

\* The keyword argument named key occurs in the text of a call's arguments.
HasKeyword(seg, key) ==
    \/ StartsWith(seg, key \o " = ")
    \/ Contains(seg, ", " \o key \o " = ")

\* The text of the argument that carries the per-platform overrides.
OverridesText == CHOOSE v \in ArgVals(out.buf, "platform") : TRUE

\* Inside every per-platform override an attribute is there iff it is not default.
OverridesOmitDefaults ==
    \A k \in DOMAIN Overrides(Rule1) : \A f \in OmitAttrs(Overrides(Rule1)[k]) :
        HasKeyword(Segment(OverridesText, k), f[1]) <=> ~f[2]

\* C6 as stated: every collection, option and omit-when-false field of every
\* variant is absent from the rendered rule iff it holds its default.
C6_AbsentIffDefault ==
    Rendered =>
        /\ \A f \in Omittable(Rule1) : HasArg(out.buf, f[1]) <=> ~f[2]
        /\ OverridesOmitDefaults

\* The fields without a skip_serializing_if attribute: always emitted.
AlwaysEmitted(r) ==
    CASE r.variant = "CxxLibrary" -> {"srcs", "headers", "preferred_linkage"}
      [] r.variant = "BuildscriptGenruleFilter" -> {"features", "cfgs"}
      [] r.variant = "BuildscriptGenruleSrcs" -> {"features", "cfgs", "files"}
      [] OTHER -> {}

\* C6, amended: the argument is absent iff the field holds its default, for
\* every such field but the native library's srcs, headers and
\* preferred_linkage and the build-script variants' features, cfgs and files,
\* which are emitted whatever they hold.
C6_AbsentIffDefaultButAlways ==
    Rendered =>
        /\ \A f \in Omittable(Rule1) :
              IF f[1] \in AlwaysEmitted(Rule1) THEN HasArg(out.buf, f[1])
              ELSE HasArg(out.buf, f[1]) <=> ~f[2]
        /\ OverridesOmitDefaults

C6_Witness ==
    /\ Rendered
    /\ Rule1.variant = "Library"
    /\ Rule1.common.base.deps # {} /\ HasArg(out.buf, "deps")
    /\ Rule1.common.base.srcs = {} /\ ~HasArg(out.buf, "srcs")
    /\ Rule1.proc_macro /\ HasArg(out.buf, "proc_macro")

HasPublic(r) == r.variant \notin BuildscriptVariants

PublicOf(r) ==
    CASE r.variant = "Alias" -> r.public
      [] r.variant \in RustVariants -> r.common.common.public
      [] OTHER -> r.common.public

\* C7 as stated: every rendered rule of every variant has a visibility
\* argument, ["PUBLIC"] for a public rule and [] otherwise.
C7_VisibilityAlways ==
    Rendered =>
        /\ HasArg(out.buf, "visibility")
        /\ ArgVals(out.buf, "visibility") \subseteq {"[\"PUBLIC\"]", "[]"}
        /\ HasPublic(Rule1) =>
              ArgVals(out.buf, "visibility")
                  = {IF PublicOf(Rule1) THEN "[\"PUBLIC\"]" ELSE "[]"}

\* C7, amended: every rendered Alias, Library, Binary, NativeLibrary and
\* PrebuiltNativeLibrary has exactly one visibility argument, ["PUBLIC"] when
\* the rule is public and [] when it is not; the two build-script variants
\* carry no public flag and are rendered without a visibility argument.
C7_VisibilityWherePublic ==
    Rendered =>
        IF HasPublic(Rule1)
        THEN /\ ArgVals(out.buf, "visibility")
                  = {IF PublicOf(Rule1) THEN "[\"PUBLIC\"]" ELSE "[]"}
             /\ ArgCount(out.buf, "visibility") = 1
        ELSE ~HasArg(out.buf, "visibility")

C7_Witness ==
    /\ Rendered
    /\ Rule1.variant = "CxxLibrary"
    /\ PublicOf(Rule1)
    /\ ArgVals(out.buf, "visibility") = {"[\"PUBLIC\"]"}

\* The number of places at which pat occurs in s.
Occurrences(s, pat) ==
    Cardinality({k \in 1..(Len(s) - Len(pat) + 1) : SubSeq(s, k, k + Len(pat) - 1) = pat})

ClaimedFn(r, cfg) ==
    CASE r.variant = "Alias" -> cfg.alias.value
      [] r.variant = "Library" -> cfg.rust_library.value
      [] r.variant = "Binary" -> cfg.rust_binary.value
      [] r.variant = "CxxLibrary" -> cfg.cxx_library.value
      [] r.variant = "PrebuiltCxxLibrary" -> cfg.prebuilt_cxx_library.value
      [] r.variant \in BuildscriptVariants -> cfg.buildscript_genrule.value

\* C10: the rendered rule is one call of the function the configuration
\* names for the rule's variant, the build-script run name for both
\* build-script variants, whatever the is_default bits say.
C10_ConfiguredFunctionName ==
    Rendered =>
        /\ FnName(out.buf) = ClaimedFn(Rule1, config)
        /\ Occurrences(out.buf, "(\n") = 1

(***************************************************************************)
(* C11: the per-platform entries and the platforms the configuration knows.*)
(***************************************************************************)
\* The platform keys that have a dict(...) entry in the rendered platform
\* argument.
EmittedPlatforms ==
    {k \in {Linux, MacOS} :
        \E v \in ArgVals(out.buf, "platform") : Contains(v, Quote(k) \o ": dict(")}

\* C11 as stated: a rendered Library or Binary shows a per-platform entry
\* only for platform keys that the configuration's platform map knows.
C11_OnlyKnownPlatforms ==
    (Rendered /\ Rule1.variant \in RustVariants) =>
        EmittedPlatforms \subseteq DOMAIN platformMap

\* C11, amended: a rendered Library or Binary shows a per-platform entry for
\* exactly the keys of its override map, whether or not the configuration's
\* platform map knows them.
C11_EveryOverrideEmitted ==
    (Rendered /\ Rule1.variant \in RustVariants) =>
        EmittedPlatforms = DOMAIN Overrides(Rule1)

C11_Witness ==
    /\ Rendered
    /\ Rule1.variant = "Library"
    /\ MacOS \in DOMAIN Overrides(Rule1)
    /\ MacOS \notin DOMAIN platformMap
    /\ MacOS \in EmittedPlatforms

(***************************************************************************)
(* impl PartialEq / Ord for Rule on their own: SpecCmp.  Three rules are   *)
(* drawn and every pair of them is compared with == and with cmp.          *)
(***************************************************************************)
CmpNames == {"a", "b"}

CmpRules ==
    {MkAlias(n, t, TRUE) : n \in CmpNames, t \in CmpNames}
    \cup {MkAlias("c", "b", FALSE)}
    \cup {MkBinary(n, {}, EmptyMap) : n \in CmpNames}
    \cup {MkPrebuilt(n, {}, Units("lib/n.a")) : n \in CmpNames}
    \cup {MkFilter(n, {}) : n \in CmpNames}

InitCmp ==
    /\ rules \in [1..3 -> CmpRules]
    /\ pc = "compare"
    /\ result = "none"
    /\ config = DefaultConfig(Default(""), Default(""))
    /\ idx = 0
    /\ out = [buf |-> "", cap |-> Unbounded, partial |-> FALSE]
    /\ fail = NoFail
    /\ run = 1
    /\ first = NoFirst
    /\ emitted = <<>>
    /\ ref = NoRef
    /\ platcfg = {}
    /\ platformMap = DefaultPlatforms
    /\ path = <<>>

\* rules[i] == rules[j] and rules[i].cmp(&rules[j]), for every i and j.
CompareRules ==
    /\ pc = "compare"
    /\ result' = [eq |-> [i \in 1..3 |-> [j \in 1..3 |-> RuleEq(rules[i], rules[j])]],
                  cmp |-> [i \in 1..3 |-> [j \in 1..3 |-> RuleCmp(rules[i], rules[j])]]]
    /\ pc' = "compared"
    /\ UNCHANGED <<config, rules, idx, out, fail, run, first, emitted, ref, platcfg,
                   platformMap, path>>

NextCmp == CompareRules

SpecCmp == InitCmp /\ [][NextCmp]_vars

Compared == pc = "compared"

\* x == y exactly when the two names are equal.
EqIsNameEquality ==
    \A i \in 1..3 : \A j \in 1..3 :
        result.eq[i][j] <=> (GetName(rules[i]) = GetName(rules[j]))

\* cmp says Equal exactly when == says equal.
CmpEqualIffEq ==
    \A i \in 1..3 : \A j \in 1..3 :
        (result.cmp[i][j] = "Equal") <=> result.eq[i][j]

\* cmp is a total order on the compound keys: Equal exactly on equal keys,
\* Less one way exactly when Greater the other way, and transitive.
CmpIsTotalOnKeys ==
    /\ \A i \in 1..3 : \A j \in 1..3 :
          /\ (result.cmp[i][j] = "Equal") <=> (RuleSortKey(rules[i]) = RuleSortKey(rules[j]))
          /\ (result.cmp[i][j] = "Less") <=> (result.cmp[j][i] = "Greater")
    /\ \A i \in 1..3 : \A j \in 1..3 : \A k \in 1..3 :
          (result.cmp[i][j] \in {"Less", "Equal"} /\ result.cmp[j][k] \in {"Less", "Equal"})
              => (result.cmp[i][k] \in {"Less", "Equal"}
                  /\ (result.cmp[i][k] = "Equal" => result.cmp[i][j] = "Equal"))

\* C12: rule equality and rule ordering agree: x == y iff the names are
\* equal, x.cmp(y) is Equal iff x == y, and cmp is a total order on the
\* compound keys.
C12_EqAndCmpAgree ==
    Compared => (EqIsNameEquality /\ CmpEqualIffEq /\ CmpIsTotalOnKeys)

\* What does hold of the two: == is name equality and cmp is a total order
\* on the keys.
C12_EachOnItsOwn ==
    Compared => (EqIsNameEquality /\ CmpIsTotalOnKeys)

\* Two aliases of one target compare Equal and are not ==.
C12_EqualButNotEq ==
    /\ Compared
    /\ result.cmp[1][2] = "Equal"
    /\ ~result.eq[1][2]

\* An alias and a rule of the same name are == and do not compare Equal.
C12_EqButNotEqual ==
    /\ Compared
    /\ result.eq[1][2]
    /\ result.cmp[1][2] # "Equal"

(***************************************************************************)
(* C13: the list written for a set of RuleRef.                             *)
(***************************************************************************)
RECURSIVE Split(_, _)
Split(s, sep) ==
    LET n == IndexOf(s, sep)
    IN  IF n = 0 THEN <<s>>
        ELSE <<SubSeq(s, 1, n - 1)>> \o Split(SubSeq(s, n + Len(sep), Len(s)), sep)

\* The strings of a list's text, ["x", "y"], without their quotes.
Items(list) ==
    IF list = "[]" THEN <<>>
    ELSE LET quoted == Split(SubSeq(list, 2, Len(list) - 1), ", ")
         IN  [k \in 1..Len(quoted) |-> SubSeq(quoted[k], 2, Len(quoted[k]) - 1)]

\* The text of the list that follows "deps = " in the text of a call's
\* keyword arguments.
KeywordList(seg, key) ==
    LET rest == SubSeq(seg, IndexOf(seg, key \o " = [") + Len(key \o " = "), Len(seg))
    IN  SubSeq(rest, 1, IndexOf(rest, "]"))

\* Every list written for a deps field of the rendered rule: at top level
\* and inside each per-platform override.
DepsLists ==
    ArgVals(out.buf, "deps")
    \cup {KeywordList(Segment(OverridesText, k), "deps") :
              k \in {l \in DOMAIN Overrides(Rule1) : Overrides(Rule1)[l].deps # {}}}

\* The set-typed deps fields of the rule rendered.
DepsFields(r) ==
    IF r.variant \in RustVariants
    THEN {r.common.base.deps} \cup {Overrides(r)[k].deps : k \in DOMAIN Overrides(r)}
    ELSE IF r.variant = "CxxLibrary" THEN {r.deps} ELSE {}

Ascending(items) ==
    \A i \in 1..Len(items) : \A j \in 1..Len(items) :
        i < j => (StrLess(items[i], items[j]) \/ items[i] = items[j])

NoStringTwice(items) ==
    \A i \in 1..Len(items) : \A j \in 1..Len(items) : i # j => items[i] # items[j]

\* C13: the list written for a set-typed deps field never holds the same
\* string twice and is in ascending order of the strings, also when the set
\* holds two references to one target under different platform predicates.
C13_DepsListHasNoDuplicates ==
    Rendered =>
        \A list \in DepsLists : NoStringTwice(Items(list)) /\ Ascending(Items(list))

\* What does hold: the list has one string per member of the set, in
\* ascending order, and a string occurs as often as the set has references
\* to that target.
C13_DepsListOnePerMember ==
    Rendered =>
        /\ \A list \in DepsLists :
              /\ Ascending(Items(list))
              /\ \E D \in DepsFields(Rule1) :
                    /\ Len(Items(list)) = Cardinality(D)
                    /\ \A t \in {d.target : d \in D} :
                          Cardinality({k \in 1..Len(Items(list)) : Items(list)[k] = t})
                              = Cardinality({d \in D : d.target = t})
        /\ \A D \in DepsFields(Rule1) : D # {} => DepsLists # {}

\* A set with one target under two predicates has been rendered.
C13_SameTargetTwice ==
    /\ Rendered
    /\ Rule1.variant = "CxxLibrary"
    /\ \E d \in Rule1.deps : \E e \in Rule1.deps : d # e /\ d.target = e.target
    /\ \E list \in DepsLists : ~NoStringTwice(Items(list))

====
